---- MODULE Spec2Model ----
(***************************************************************************)
(* A model of DynBuffer (src/src/dynbuffer.js): a cursor-based binary      *)
(* buffer built on a Node.js Buffer that views a resizable ArrayBuffer.    *)
(*                                                                         *)
(* Platform semantics the class relies on, modelled by what they do:       *)
(*  - Buffer.from(arrayBuffer) without a length is a length-tracking view  *)
(*    of the resizable ArrayBuffer (Node >= 22.12): it follows resize().   *)
(*  - view.subarray(0, end) with an explicit end is a fixed-length view of *)
(*    the same ArrayBuffer: it does not follow resize().                   *)
(*  - Buffer.write<Type>(value, offset) throws ERR_OUT_OF_RANGE when the   *)
(*    value is outside the type's range or the span [offset, offset+width) *)
(*    is outside the view; Buffer.read<Type>(offset) throws likewise.      *)
(*  - ArrayBuffer.resize(n) throws RangeError when n > maxByteLength.      *)
(* JavaScript integers (Number and BigInt) are modelled exactly, as a sign *)
(* and eight base-256 digits, least significant first.                     *)
(***************************************************************************)
EXTENDS Integers, Sequences, FiniteSets, TLC

VARIABLES arrayBuffer, stream, position, endian, last, ops, fields

vars == <<arrayBuffer, stream, position, endian, last, ops, fields>>

\* Bound: maxByteLength of the ArrayBuffer, 2 ** 30 in the source (line 32).
MaxCapacity == 10
\* Bound: the number of public calls made on one buffer.
MaxOps == 3

Undefined == "undefined"

(***************************************************************************)
(* Integers                                                                *)
(***************************************************************************)
Pow256(k) == IF k = 0 THEN 1 ELSE IF k = 1 THEN 256 ELSE IF k = 2 THEN 65536 ELSE 16777216

\* The eight base-256 digits of 0 <= n < 2^31, least significant first.
Digits(n) == [i \in 1..8 |-> IF i <= 4 THEN (n \div Pow256(i - 1)) % 256 ELSE 0]

\* The JavaScript integer n, for |n| < 2^31.
Num(n) == [neg |-> n < 0, mag |-> Digits(IF n < 0 THEN 0 - n ELSE n)]

\* An integer given by its sign and magnitude digits (most significant first),
\* for the values beyond 31 bits.
Big(neg, msbFirst) ==
    [neg |-> neg,
     mag |-> [i \in 1..8 |-> IF i <= Len(msbFirst) THEN msbFirst[Len(msbFirst) + 1 - i] ELSE 0]]

IsZero(v) == \A i \in 1..8 : v.mag[i] = 0

Reverse(s) == [i \in 1..Len(s) |-> s[Len(s) + 1 - i]]

\* min <= v <= max for the w-byte integer type: [-2^(8w-1), 2^(8w-1) - 1] when
\* signed, [0, 2^(8w) - 1] when not.
InRange(v, w, signed) ==
    /\ \A i \in (w + 1)..8 : v.mag[i] = 0
    /\ IF signed
       THEN IF v.neg
            THEN \/ v.mag[w] < 128
                 \/ v.mag[w] = 128 /\ \A i \in 1..(w - 1) : v.mag[i] = 0
            ELSE v.mag[w] < 128
       ELSE ~v.neg \/ IsZero(v)

\* 2^(8w) - d for the w digits d (least significant first), modulo 2^(8w):
\* complement every digit and add one.
Negate(d) ==
    [i \in 1..Len(d) |->
        IF \A j \in 1..(i - 1) : d[j] = 0 THEN (256 - d[i]) % 256 ELSE 255 - d[i]]

\* The w bytes of v in two's complement, least significant first.
TwosComplement(v, w) ==
    LET d == [i \in 1..w |-> v.mag[i]]
    IN IF v.neg THEN Negate(d) ELSE d

\* The integer the w bytes d (least significant first) stand for.
FromBytes(d, signed) ==
    LET w == Len(d)
        pad(x) == [i \in 1..8 |-> IF i <= w THEN x[i] ELSE 0]
    IN IF signed /\ d[w] >= 128
       THEN [neg |-> TRUE, mag |-> pad(Negate(d))]
       ELSE [neg |-> FALSE, mag |-> pad(d)]

(***************************************************************************)
(* Floating-point numbers: a JavaScript number as its IEEE-754 double      *)
(* fields, sign, unbiased exponent and the 52 fraction bits as             *)
(* <<4 bits, 8 bits, 8 bits, 8 bits, 8 bits, 8 bits, 8 bits>>.             *)
(***************************************************************************)
\* IEEE-754 double precision, most significant byte first.
DoubleBytes(v) ==
    LET E == v.exp + 1023
    IN <<(v.sign * 128) + (E \div 16), ((E % 16) * 16) + v.frac[1],
         v.frac[2], v.frac[3], v.frac[4], v.frac[5], v.frac[6], v.frac[7]>>

\* IEEE-754 single precision, most significant byte first: the top 23
\* fraction bits (the inputs of the model have no lower bits set).
FloatBytes(v) ==
    LET E == v.exp + 127
    IN <<(v.sign * 128) + (E \div 2),
         ((E % 2) * 128) + (v.frac[1] * 8) + (v.frac[2] \div 32),
         ((v.frac[2] % 32) * 8) + (v.frac[3] \div 32),
         ((v.frac[3] % 32) * 8) + (v.frac[4] \div 32)>>

DoubleFromBytes(d) ==
    [sign |-> d[1] \div 128,
     exp  |-> ((d[1] % 128) * 16) + (d[2] \div 16) - 1023,
     frac |-> <<d[2] % 16, d[3], d[4], d[5], d[6], d[7], d[8]>>]

FloatFromBytes(d) ==
    [sign |-> d[1] \div 128,
     exp  |-> ((d[1] % 128) * 2) + (d[2] \div 128) - 127,
     frac |-> <<(d[2] % 128) \div 8, ((d[2] % 8) * 32) + (d[3] \div 8),
                ((d[3] % 8) * 32) + (d[4] \div 8), (d[4] % 8) * 32, 0, 0, 0>>]

(***************************************************************************)
(* The text codec service (iconv-lite): strings are sequences of code      *)
(* points below 65536.                                                     *)
(***************************************************************************)
encodingExists(charSet) == charSet \in {"utf8"}

RECURSIVE encode(_)
encode(str) ==
    IF str = <<>> THEN <<>>
    ELSE LET cp == Head(str)
             b  == IF cp < 128 THEN <<cp>>
                   ELSE IF cp < 2048 THEN <<192 + (cp \div 64), 128 + (cp % 64)>>
                   ELSE <<224 + (cp \div 4096), 128 + ((cp \div 64) % 64), 128 + (cp % 64)>>
         IN b \o encode(Tail(str))

IsCont(bytes, i) == i <= Len(bytes) /\ bytes[i] >= 128 /\ bytes[i] < 192

RECURSIVE decode(_)
decode(bytes) ==
    IF bytes = <<>> THEN <<>>
    ELSE LET b == bytes[1]
             rest(k) == SubSeq(bytes, k + 1, Len(bytes))
         IN IF b < 128 THEN <<b>> \o decode(rest(1))
            ELSE IF b >= 194 /\ b < 224 /\ IsCont(bytes, 2)
            THEN <<((b - 192) * 64) + (bytes[2] - 128)>> \o decode(rest(2))
            ELSE IF b >= 224 /\ b < 240 /\ IsCont(bytes, 2) /\ IsCont(bytes, 3)
            THEN <<((b - 224) * 4096) + ((bytes[2] - 128) * 64) + (bytes[3] - 128)>>
                     \o decode(rest(3))
            ELSE <<65533>> \o decode(rest(1))

(***************************************************************************)
(* Node.js Buffer methods the class dispatches to by name                  *)
(***************************************************************************)
Method(rep, width, signed, order) ==
    [rep |-> rep, width |-> width, signed |-> signed, order |-> order]

WriteMethods ==
    [writeInt8 |-> Method("int", 1, TRUE, "BE"),
     writeUInt8 |-> Method("int", 1, FALSE, "BE"),
     writeInt16BE |-> Method("int", 2, TRUE, "BE"),
     writeInt16LE |-> Method("int", 2, TRUE, "LE"),
     writeUInt16BE |-> Method("int", 2, FALSE, "BE"),
     writeUInt16LE |-> Method("int", 2, FALSE, "LE"),
     writeInt32BE |-> Method("int", 4, TRUE, "BE"),
     writeInt32LE |-> Method("int", 4, TRUE, "LE"),
     writeUInt32BE |-> Method("int", 4, FALSE, "BE"),
     writeUInt32LE |-> Method("int", 4, FALSE, "LE"),
     writeFloatBE |-> Method("float", 4, TRUE, "BE"),
     writeFloatLE |-> Method("float", 4, TRUE, "LE"),
     writeDoubleBE |-> Method("float", 8, TRUE, "BE"),
     writeDoubleLE |-> Method("float", 8, TRUE, "LE"),
     writeBigInt64BE |-> Method("int", 8, TRUE, "BE"),
     writeBigInt64LE |-> Method("int", 8, TRUE, "LE"),
     writeBigUint64BE |-> Method("int", 8, FALSE, "BE"),
     writeBigUint64LE |-> Method("int", 8, FALSE, "LE")]

ReadMethods ==
    [readInt8 |-> Method("int", 1, TRUE, "BE"),
     readUInt8 |-> Method("int", 1, FALSE, "BE"),
     readInt16BE |-> Method("int", 2, TRUE, "BE"),
     readInt16LE |-> Method("int", 2, TRUE, "LE"),
     readUInt16BE |-> Method("int", 2, FALSE, "BE"),
     readUInt16LE |-> Method("int", 2, FALSE, "LE"),
     readInt32BE |-> Method("int", 4, TRUE, "BE"),
     readInt32LE |-> Method("int", 4, TRUE, "LE"),
     readUInt32BE |-> Method("int", 4, FALSE, "BE"),
     readUInt32LE |-> Method("int", 4, FALSE, "LE"),
     readFloatBE |-> Method("float", 4, TRUE, "BE"),
     readFloatLE |-> Method("float", 4, TRUE, "LE"),
     readDoubleBE |-> Method("float", 8, TRUE, "BE"),
     readDoubleLE |-> Method("float", 8, TRUE, "LE"),
     readBigInt64BE |-> Method("int", 8, TRUE, "BE"),
     readBigInt64LE |-> Method("int", 8, TRUE, "LE"),
     readBigUint64BE |-> Method("int", 8, FALSE, "BE"),
     readBigUint64LE |-> Method("int", 8, FALSE, "LE")]

\* The outcome of a call: the buffer it leaves, whether it returned or threw,
\* and the value it returned.
Returned(b, ret) == [b |-> b, ok |-> TRUE, err |-> "", ret |-> ret]
Thrown(b, err) == [b |-> b, ok |-> FALSE, err |-> err, ret |-> Undefined]

(***************************************************************************)
(* The buffer: b.arrayBuffer is the resizable ArrayBuffer's bytes,         *)
(* b.stream the view #stream holds (auto: it tracks the ArrayBuffer's      *)
(* length; otherwise len is its fixed length), b.position and b.endian.    *)
(***************************************************************************)
\* get length: this.#stream.length. A fixed-length view the ArrayBuffer no
\* longer covers is out of bounds and has length 0.
length(b) ==
    IF b.stream.auto THEN Len(b.arrayBuffer)
    ELSE IF b.stream.len <= Len(b.arrayBuffer) THEN b.stream.len ELSE 0

\* The bytes the view shows.
Bytes(b) == SubSeq(b.arrayBuffer, 1, length(b))

bytesAvailable(b) == length(b) - b.position

\* ArrayBuffer.prototype.resize: new bytes are zero.
Resize(ab, n) ==
    [i \in 1..n |-> IF i <= Len(ab) THEN ab[i] ELSE 0]

\* TypedArray.prototype.subarray's index clamping.
ClampIndex(k, len) ==
    IF k < 0 THEN (IF len + k < 0 THEN 0 ELSE len + k)
    ELSE IF k > len THEN len ELSE k

\* buf.write<Type>(value, offset)
BufferWrite(b, f, value, offset) ==
    IF f \notin DOMAIN WriteMethods THEN Thrown(b, "TypeError")
    ELSE LET m == WriteMethods[f]
             be == IF m.rep = "float"
                   THEN (IF m.width = 4 THEN FloatBytes(value) ELSE DoubleBytes(value))
                   ELSE Reverse(TwosComplement(value, m.width))
             out == IF m.order = "LE" THEN Reverse(be) ELSE be
         IN IF m.rep = "int" /\ ~InRange(value, m.width, m.signed)
            THEN Thrown(b, "ERR_OUT_OF_RANGE")
            ELSE IF offset < 0 \/ offset + m.width > length(b)
            THEN Thrown(b, "ERR_OUT_OF_RANGE")
            ELSE Returned(
                   [b EXCEPT !.arrayBuffer =
                       [i \in 1..Len(@) |->
                           IF i > offset /\ i <= offset + m.width
                           THEN out[i - offset] ELSE @[i]]],
                   offset + m.width)

\* buf.read<Type>(offset)
BufferRead(b, f, offset) ==
    IF f \notin DOMAIN ReadMethods THEN Thrown(b, "TypeError")
    ELSE LET m == ReadMethods[f]
             raw == SubSeq(b.arrayBuffer, offset + 1, offset + m.width)
             be == IF m.order = "LE" THEN Reverse(raw) ELSE raw
         IN IF offset < 0 \/ offset + m.width > length(b)
            THEN Thrown(b, "ERR_OUT_OF_RANGE")
            ELSE Returned(b,
                   IF m.rep = "float"
                   THEN (IF m.width = 4 THEN FloatFromBytes(be) ELSE DoubleFromBytes(be))
                   ELSE FromBytes(Reverse(be), m.signed))

\* set length(value)
setLength(b, value) ==
    IF value > length(b)
    THEN Returned(b, Undefined)
    ELSE LET n == ClampIndex(value, length(b)) - ClampIndex(0, length(b))
         IN Returned([b EXCEPT !.stream = [auto |-> FALSE, len |-> n],
                               !.position = n],
                     Undefined)

\* set position(value)
setPosition(b, value) == Returned([b EXCEPT !.position = value], Undefined)

\* A faulty set endian that also rewinds the cursor.
setEndianRewinds(b, value) == Returned([b EXCEPT !.endian = value, !.position = 0], Undefined)

\* set endian(value)
setEndian(b, value) == Returned([b EXCEPT !.endian = value], Undefined)

\* A faulty #ensureCapacity that grows by allocating a new, zeroed store.
ensureCapacityReallocates(b, bytes) ==
    IF bytesAvailable(b) < bytes
    THEN LET newLength == length(b) + (bytes - bytesAvailable(b))
         IN IF newLength > MaxCapacity \/ newLength < 0
            THEN Thrown(b, "RangeError")
            ELSE Returned([b EXCEPT !.arrayBuffer = [i \in 1..newLength |-> 0]], Undefined)
    ELSE Returned(b, Undefined)

\* A faulty #ensureCapacity whose ArrayBuffer has no maxByteLength ceiling.
ensureCapacityNoCeiling(b, bytes) ==
    IF bytesAvailable(b) < bytes
    THEN LET newLength == length(b) + (bytes - bytesAvailable(b))
         IN Returned([b EXCEPT !.arrayBuffer = Resize(@, newLength)], Undefined)
    ELSE Returned(b, Undefined)

\* #ensureCapacity(bytes)
ensureCapacity(b, bytes) ==
    IF bytesAvailable(b) < bytes
    THEN LET newLength == length(b) + (bytes - bytesAvailable(b))
         IN IF newLength > MaxCapacity \/ newLength < 0
            THEN Thrown(b, "RangeError")
            ELSE Returned([b EXCEPT !.arrayBuffer = Resize(@, newLength)], Undefined)
    ELSE Returned(b, Undefined)

\* A faulty #executeCall whose read branch names the big-endian method
\* whatever #endian is.
executeCallReadsBE(b, func, bytes, isWrite, value) ==
    LET f == IF bytes = 1 THEN func
             ELSE IF isWrite THEN func \o b.endian ELSE func \o "BE"
    IN IF isWrite
       THEN LET c == ensureCapacity(b, bytes)
                w == BufferWrite(c.b, f, value, c.b.position)
            IN IF ~c.ok THEN c
               ELSE IF ~w.ok THEN w
               ELSE Returned([w.b EXCEPT !.position = @ + bytes], Undefined)
       ELSE LET r == BufferRead(b, f, b.position)
            IN IF ~r.ok THEN r
               ELSE Returned([b EXCEPT !.position = @ + bytes], r.ret)

\* A faulty #executeCall whose write branch names the big-endian method
\* whatever #endian is.
executeCallWritesBE(b, func, bytes, isWrite, value) ==
    LET f == IF bytes = 1 THEN func
             ELSE IF isWrite THEN func \o "BE" ELSE func \o b.endian
    IN IF isWrite
       THEN LET c == ensureCapacity(b, bytes)
                w == BufferWrite(c.b, f, value, c.b.position)
            IN IF ~c.ok THEN c
               ELSE IF ~w.ok THEN w
               ELSE Returned([w.b EXCEPT !.position = @ + bytes], Undefined)
       ELSE LET r == BufferRead(b, f, b.position)
            IN IF ~r.ok THEN r
               ELSE Returned([b EXCEPT !.position = @ + bytes], r.ret)

\* A faulty #executeCall whose read branch advances the cursor before it
\* reads, so that a read that throws leaves the cursor moved.
executeCallAdvancesFirst(b, func, bytes, isWrite, value) ==
    LET f == IF bytes = 1 THEN func ELSE func \o b.endian
    IN IF isWrite
       THEN LET c == ensureCapacity(b, bytes)
                w == BufferWrite(c.b, f, value, c.b.position)
            IN IF ~c.ok THEN c
               ELSE IF ~w.ok THEN w
               ELSE Returned([w.b EXCEPT !.position = @ + bytes], Undefined)
       ELSE LET moved == [b EXCEPT !.position = @ + bytes]
                r == BufferRead(moved, f, b.position)
            IN IF ~r.ok THEN r ELSE Returned(moved, r.ret)

\* #executeCall(func, bytes, value); isWrite is arguments.length === 3.
executeCall(b, func, bytes, isWrite, value) ==
    LET f == IF bytes = 1 THEN func ELSE func \o b.endian
    IN IF isWrite
       THEN LET c == ensureCapacity(b, bytes)
                w == BufferWrite(c.b, f, value, c.b.position)
            IN IF ~c.ok THEN c
               ELSE IF ~w.ok THEN w
               ELSE Returned([w.b EXCEPT !.position = @ + bytes], Undefined)
       ELSE LET r == BufferRead(b, f, b.position)
            IN IF ~r.ok THEN r
               ELSE Returned([b EXCEPT !.position = @ + bytes], r.ret)

\* A faulty clear() that resets the cursor and forgets the length.
clearKeepsLength(b) == Returned([b EXCEPT !.position = 0], Undefined)

\* clear()
clear(b) == setLength([b EXCEPT !.position = 0], 0)

writeByte(b, value) == executeCall(b, "writeInt8", 1, TRUE, value)
readByte(b) == executeCall(b, "readInt8", 1, FALSE, Undefined)
writeUnsignedByte(b, value) == executeCall(b, "writeUInt8", 1, TRUE, value)
readUnsignedByte(b) == executeCall(b, "readUInt8", 1, FALSE, Undefined)

\* writeBytes and readBytes have empty bodies.
writeBytes(b, bytes, pos, len) == Returned(b, Undefined)
readBytes(b, bytes, pos, len) == Returned(b, Undefined)

writeBoolean(b, value) == writeByte(b, IF value THEN Num(1) ELSE Num(0))
readBoolean(b) ==
    LET r == readByte(b)
    IN IF r.ok THEN Returned(r.b, ~IsZero(r.ret)) ELSE r

writeShort(b, value) == executeCall(b, "writeInt16", 2, TRUE, value)
readShort(b) == executeCall(b, "readInt16", 2, FALSE, Undefined)
writeUnsignedShort(b, value) == executeCall(b, "writeUInt16", 2, TRUE, value)
readUnsignedShort(b) == executeCall(b, "readUInt16", 2, FALSE, Undefined)
writeInt(b, value) == executeCall(b, "writeInt32", 4, TRUE, value)
readInt(b) == executeCall(b, "readInt32", 4, FALSE, Undefined)
writeUnsignedInt(b, value) == executeCall(b, "writeUInt32", 4, TRUE, value)
readUnsignedInt(b) == executeCall(b, "readUInt32", 4, FALSE, Undefined)
writeFloat(b, value) == executeCall(b, "writeFloat", 4, TRUE, value)
readFloat(b) == executeCall(b, "readFloat", 4, FALSE, Undefined)
writeDouble(b, value) == executeCall(b, "writeDouble", 8, TRUE, value)
readDouble(b) == executeCall(b, "readDouble", 8, FALSE, Undefined)
writeLong(b, value) == executeCall(b, "writeBigInt64", 8, TRUE, value)
readLong(b) == executeCall(b, "readBigInt64", 8, FALSE, Undefined)
writeUnsignedLong(b, value) == executeCall(b, "writeBigUint64", 8, TRUE, value)
readUnsignedLong(b) == executeCall(b, "readBigUint64", 8, FALSE, Undefined)

\* A faulty writeMultiByte that writes the length prefix before it asks the
\* codec whether the character set exists.
writeMultiBytePrefixFirst(b, value, charSet, source) ==
    LET p == IF source THEN writeUnsignedShort(b, Num(Len(value)))
             ELSE Returned(b, Undefined)
    IN IF ~p.ok THEN p
       ELSE IF ~encodingExists(charSet)
       THEN Thrown(p.b, "Invalid encoding for writeMultiByte.")
       ELSE writeBytes(p.b, encode(value), 0, Len(encode(value)))

\* writeMultiByte(value, charSet = 'utf8', source = false)
writeMultiByte(b, value, charSet, source) ==
    IF ~encodingExists(charSet)
    THEN Thrown(b, "Invalid encoding for writeMultiByte.")
    ELSE LET encoded == encode(value)
             p == IF source THEN writeUnsignedShort(b, Num(Len(encoded)))
                  ELSE Returned(b, Undefined)
         IN IF ~p.ok THEN p
            ELSE writeBytes(p.b, encoded, 0, Len(encoded))

\* readMultiByte(length, charSet = 'utf8')
readMultiByte(b, len, charSet) ==
    IF ~encodingExists(charSet)
    THEN Thrown(b, "Invalid encoding for readMultiByte.")
    ELSE LET begin == ClampIndex(b.position, length(b))
             end == ClampIndex(b.position + len, length(b))
             buffer == SubSeq(b.arrayBuffer, begin + 1, end)
         IN Returned([b EXCEPT !.position = @ + len], decode(buffer))

\* The number a read returned, as an index (a 16-bit count).
ToIndex(v) == v.mag[1] + (256 * v.mag[2])

writeUTF(b, value) == writeMultiByte(b, value, "utf8", TRUE)
readUTF(b) ==
    LET n == readUnsignedShort(b)
    IN IF ~n.ok THEN n ELSE readMultiByte(n.b, ToIndex(n.ret), "utf8")
writeUTFBytes(b, value) == writeMultiByte(b, value, "utf8", FALSE)
readUTFBytes(b, len) == readMultiByte(b, len, "utf8")

(***************************************************************************)
(* Inputs of the public calls                                              *)
(***************************************************************************)
ByteInputs == {Num(-2), Num(127), Num(200)}
UnsignedByteInputs == {Num(200), Num(1)}
BooleanInputs == BOOLEAN
ShortInputs == {Num(-2), Num(4660)}
UnsignedShortInputs == {Num(65534), Num(258)}
IntInputs == {Big(TRUE, <<128, 0, 0, 0>>), Num(305419896)}
UnsignedIntInputs == {Num(305419896), Big(FALSE, <<255, 255, 255, 254>>)}
LongInputs == {Big(TRUE, <<128, 0, 0, 0, 0, 0, 0, 0>>), Big(FALSE, <<1, 2, 3, 4, 5, 6, 7, 8>>)}
UnsignedLongInputs == {Big(FALSE, <<255, 255, 255, 255, 255, 255, 255, 254>>),
                       Big(FALSE, <<1, 2, 3, 4, 5, 6, 7, 8>>)}
\* 1.0 and -3.0
FloatInputs == {[sign |-> 0, exp |-> 0, frac |-> <<0, 0, 0, 0, 0, 0, 0>>],
                [sign |-> 1, exp |-> 1, frac |-> <<8, 0, 0, 0, 0, 0, 0>>]}
\* "hi" and "é"
StringInputs == {<<104, 105>>, <<233>>}
CharSetInputs == {"utf8", "bogus-charset"}
ReadLengthInputs == {0, 2, 5}
PositionInputs == {-1, 0, 1, 4, MaxCapacity + 1}
LengthInputs == {0, 3, 10}
EndianInputs == {"BE", "LE"}

(***************************************************************************)
(* The state machine: one action per public method. last records the call  *)
(* just made, its outcome and the buffer it was made on.                   *)
(***************************************************************************)
Self == [arrayBuffer |-> arrayBuffer, stream |-> stream,
         position |-> position, endian |-> endian]

\* constructor()
Init ==
    /\ arrayBuffer = <<>>
    /\ stream = [auto |-> TRUE, len |-> 0]
    /\ position = 0
    /\ endian = "BE"
    /\ last = [op |-> "constructor", arg |-> Undefined, ok |-> TRUE, err |-> "",
               ret |-> Undefined,
               pre |-> [arrayBuffer |-> <<>>, stream |-> [auto |-> TRUE, len |-> 0],
                        position |-> 0, endian |-> "BE"]]
    /\ ops = 0
    /\ fields = [valid |-> TRUE, seq |-> <<>>]

\* The typed integer and boolean writes.
FieldWrites ==
    {"writeByte", "writeUnsignedByte", "writeBoolean", "writeShort", "writeUnsignedShort",
     "writeInt", "writeUnsignedInt", "writeLong", "writeUnsignedLong"}

\* fields after the call op(arg) with outcome r: while every call made since
\* construction was a typed integer or boolean write that returned, or a
\* change of byte order, seq lists the writes in order, each with its
\* value and the byte order it was made under; after any other call valid
\* is FALSE.
Recorded(op, arg, r) ==
    IF fields.valid /\ op \in FieldWrites /\ r.ok
    THEN [fields EXCEPT !.seq = Append(@, [op |-> op, value |-> arg, endian |-> endian])]
    ELSE IF fields.valid /\ op = "setEndian" /\ r.ok
    THEN fields
    ELSE [valid |-> FALSE, seq |-> <<>>]

Call(op, arg, r) ==
    /\ ops < MaxOps
    /\ arrayBuffer' = r.b.arrayBuffer
    /\ stream' = r.b.stream
    /\ position' = r.b.position
    /\ endian' = r.b.endian
    /\ last' = [op |-> op, arg |-> arg, ok |-> r.ok, err |-> r.err, ret |-> r.ret,
                pre |-> Self]
    /\ ops' = ops + 1
    /\ fields' = Recorded(op, arg, r)

SetLength == \E value \in LengthInputs : Call("setLength", value, setLength(Self, value))
SetPosition == \E value \in PositionInputs : Call("setPosition", value, setPosition(Self, value))
SetEndian == \E value \in EndianInputs : Call("setEndian", value, setEndian(Self, value))
Clear == Call("clear", Undefined, clear(Self))
WriteByte == \E value \in ByteInputs : Call("writeByte", value, writeByte(Self, value))
ReadByte == Call("readByte", Undefined, readByte(Self))
WriteUnsignedByte ==
    \E value \in UnsignedByteInputs : Call("writeUnsignedByte", value, writeUnsignedByte(Self, value))
ReadUnsignedByte == Call("readUnsignedByte", Undefined, readUnsignedByte(Self))
WriteBytes ==
    \E bytes \in {encode(str) : str \in StringInputs} :
        Call("writeBytes", bytes, writeBytes(Self, bytes, 0, Len(bytes)))
ReadBytes ==
    \E len \in ReadLengthInputs : Call("readBytes", len, readBytes(Self, <<>>, 0, len))
WriteBoolean == \E value \in BooleanInputs : Call("writeBoolean", value, writeBoolean(Self, value))
ReadBoolean == Call("readBoolean", Undefined, readBoolean(Self))
WriteShort == \E value \in ShortInputs : Call("writeShort", value, writeShort(Self, value))
ReadShort == Call("readShort", Undefined, readShort(Self))
WriteUnsignedShort ==
    \E value \in UnsignedShortInputs : Call("writeUnsignedShort", value, writeUnsignedShort(Self, value))
ReadUnsignedShort == Call("readUnsignedShort", Undefined, readUnsignedShort(Self))
WriteInt == \E value \in IntInputs : Call("writeInt", value, writeInt(Self, value))
ReadInt == Call("readInt", Undefined, readInt(Self))
WriteUnsignedInt ==
    \E value \in UnsignedIntInputs : Call("writeUnsignedInt", value, writeUnsignedInt(Self, value))
ReadUnsignedInt == Call("readUnsignedInt", Undefined, readUnsignedInt(Self))
WriteFloat == \E value \in FloatInputs : Call("writeFloat", value, writeFloat(Self, value))
ReadFloat == Call("readFloat", Undefined, readFloat(Self))
WriteDouble == \E value \in FloatInputs : Call("writeDouble", value, writeDouble(Self, value))
ReadDouble == Call("readDouble", Undefined, readDouble(Self))
WriteLong == \E value \in LongInputs : Call("writeLong", value, writeLong(Self, value))
ReadLong == Call("readLong", Undefined, readLong(Self))
WriteUnsignedLong ==
    \E value \in UnsignedLongInputs : Call("writeUnsignedLong", value, writeUnsignedLong(Self, value))
ReadUnsignedLong == Call("readUnsignedLong", Undefined, readUnsignedLong(Self))
WriteMultiByte ==
    \E value \in StringInputs, charSet \in CharSetInputs, source \in BOOLEAN :
        Call("writeMultiByte", [value |-> value, charSet |-> charSet, source |-> source],
             writeMultiByte(Self, value, charSet, source))
ReadMultiByte ==
    \E len \in ReadLengthInputs, charSet \in CharSetInputs :
        Call("readMultiByte", [length |-> len, charSet |-> charSet],
             readMultiByte(Self, len, charSet))
WriteUTF == \E value \in StringInputs : Call("writeUTF", value, writeUTF(Self, value))
ReadUTF == Call("readUTF", Undefined, readUTF(Self))
WriteUTFBytes == \E value \in StringInputs : Call("writeUTFBytes", value, writeUTFBytes(Self, value))
ReadUTFBytes == \E len \in ReadLengthInputs : Call("readUTFBytes", len, readUTFBytes(Self, len))

Next ==
    \/ SetLength \/ SetPosition \/ SetEndian \/ Clear
    \/ WriteByte \/ ReadByte \/ WriteUnsignedByte \/ ReadUnsignedByte
    \/ WriteBytes \/ ReadBytes \/ WriteBoolean \/ ReadBoolean
    \/ WriteShort \/ ReadShort \/ WriteUnsignedShort \/ ReadUnsignedShort
    \/ WriteInt \/ ReadInt \/ WriteUnsignedInt \/ ReadUnsignedInt
    \/ WriteFloat \/ ReadFloat \/ WriteDouble \/ ReadDouble
    \/ WriteLong \/ ReadLong \/ WriteUnsignedLong \/ ReadUnsignedLong
    \/ WriteMultiByte \/ ReadMultiByte \/ WriteUTF \/ ReadUTF
    \/ WriteUTFBytes \/ ReadUTFBytes

Spec == Init /\ [][Next]_vars

(***************************************************************************)
(* Vocabulary of the properties                                            *)
(***************************************************************************)
\* The typed accessors with the byte width the specification gives each type.
TypeWidth ==
    [Byte |-> 1, UnsignedByte |-> 1, Boolean |-> 1, Short |-> 2, UnsignedShort |-> 2,
     Int |-> 4, UnsignedInt |-> 4, Float |-> 4, Double |-> 8, Long |-> 8,
     UnsignedLong |-> 8]

TypeOfOp ==
    [writeByte |-> "Byte", readByte |-> "Byte",
     writeUnsignedByte |-> "UnsignedByte", readUnsignedByte |-> "UnsignedByte",
     writeBoolean |-> "Boolean", readBoolean |-> "Boolean",
     writeShort |-> "Short", readShort |-> "Short",
     writeUnsignedShort |-> "UnsignedShort", readUnsignedShort |-> "UnsignedShort",
     writeInt |-> "Int", readInt |-> "Int",
     writeUnsignedInt |-> "UnsignedInt", readUnsignedInt |-> "UnsignedInt",
     writeFloat |-> "Float", readFloat |-> "Float",
     writeDouble |-> "Double", readDouble |-> "Double",
     writeLong |-> "Long", readLong |-> "Long",
     writeUnsignedLong |-> "UnsignedLong", readUnsignedLong |-> "UnsignedLong"]

TypedWrites ==
    {"writeByte", "writeUnsignedByte", "writeBoolean", "writeShort", "writeUnsignedShort",
     "writeInt", "writeUnsignedInt", "writeFloat", "writeDouble", "writeLong",
     "writeUnsignedLong"}
TypedReads == DOMAIN TypeOfOp \ TypedWrites
IntegerWrites == TypedWrites \ {"writeFloat", "writeDouble", "writeBoolean"}

WidthOf(op) == TypeWidth[TypeOfOp[op]]

\* The typed write named op, applied to buffer b.
WriteOf(op, b, value) ==
    CASE op = "writeByte" -> writeByte(b, value)
      [] op = "writeUnsignedByte" -> writeUnsignedByte(b, value)
      [] op = "writeBoolean" -> writeBoolean(b, value)
      [] op = "writeShort" -> writeShort(b, value)
      [] op = "writeUnsignedShort" -> writeUnsignedShort(b, value)
      [] op = "writeInt" -> writeInt(b, value)
      [] op = "writeUnsignedInt" -> writeUnsignedInt(b, value)
      [] op = "writeFloat" -> writeFloat(b, value)
      [] op = "writeDouble" -> writeDouble(b, value)
      [] op = "writeLong" -> writeLong(b, value)
      [] op = "writeUnsignedLong" -> writeUnsignedLong(b, value)

\* The typed read of type T, applied to buffer b.
ReadOf(T, b) ==
    CASE T = "Byte" -> readByte(b)
      [] T = "UnsignedByte" -> readUnsignedByte(b)
      [] T = "Boolean" -> readBoolean(b)
      [] T = "Short" -> readShort(b)
      [] T = "UnsignedShort" -> readUnsignedShort(b)
      [] T = "Int" -> readInt(b)
      [] T = "UnsignedInt" -> readUnsignedInt(b)
      [] T = "Float" -> readFloat(b)
      [] T = "Double" -> readDouble(b)
      [] T = "Long" -> readLong(b)
      [] T = "UnsignedLong" -> readUnsignedLong(b)

Flip(e) == IF e = "BE" THEN "LE" ELSE "BE"

\* position, length and the stored bytes of the buffer are those of b.
Unchanged(b) ==
    /\ position = b.position
    /\ length(Self) = length(b)
    /\ Bytes(Self) = Bytes(b)

\* The buffer with the cursor put back where the last call found it.
Rewound == setPosition(Self, last.pre.position).b

(***************************************************************************)
(* C1                                                                      *)
(***************************************************************************)
\* C1 (as stated): a typed integer or boolean write(T, v) that returned,
\* followed at once by read(T), returns v; writeBoolean(x) followed at once by
\* readByte() returns 1 for true and 0 for false.
C1_RoundTripImmediate ==
    /\ (last.op \in IntegerWrites \cup {"writeBoolean"} /\ last.ok) =>
           LET r == ReadOf(TypeOfOp[last.op], Self)
           IN r.ok /\ r.ret = last.arg
    /\ (last.op = "writeBoolean" /\ last.ok) =>
           LET r == readByte(Self)
           IN r.ok /\ r.ret = Num(IF last.arg THEN 1 ELSE 0)

\* C1 (amended): a typed integer or boolean write(T, v) at position p that
\* returned, followed by position = p and then read(T) under the same
\* endianness, returns v and leaves the cursor where the write left it;
\* writeBoolean(x), position = p, readByte() returns 1 for true, 0 for false.
C1_RoundTripRewound ==
    /\ (last.op \in IntegerWrites \cup {"writeBoolean"} /\ last.ok) =>
           LET r == ReadOf(TypeOfOp[last.op], Rewound)
           IN r.ok /\ r.ret = last.arg /\ r.b.position = position
    /\ (last.op = "writeBoolean" /\ last.ok) =>
           LET r == readByte(Rewound)
           IN r.ok /\ r.ret = Num(IF last.arg THEN 1 ELSE 0)

\* A negative 64-bit value written in little-endian mode after other data.
C1_Witness ==
    /\ last.op = "writeLong" /\ last.ok /\ last.arg.neg
    /\ endian = "LE" /\ last.pre.position > 0
    /\ readLong(Rewound).ok

(***************************************************************************)
(* C2                                                                      *)
(***************************************************************************)
\* The byte width of the call last made: the type's width for a typed call,
\* n for a read of n text bytes, k for a write of k raw or encoded bytes
\* (plus 2 for the length prefix when one is written).
CallWidth ==
    CASE last.op \in DOMAIN TypeOfOp -> WidthOf(last.op)
      [] last.op \in {"readUTFBytes", "readBytes"} -> last.arg
      [] last.op = "readMultiByte" -> last.arg.length
      [] last.op = "writeBytes" -> Len(last.arg)
      [] last.op = "writeUTFBytes" -> Len(encode(last.arg))
      [] last.op = "writeUTF" -> 2 + Len(encode(last.arg))
      [] last.op = "writeMultiByte" ->
             (IF last.arg.source THEN 2 ELSE 0) + Len(encode(last.arg.value))
      [] OTHER -> 0

SizedCalls ==
    DOMAIN TypeOfOp \cup {"readUTFBytes", "readBytes", "readMultiByte", "writeBytes",
                          "writeUTFBytes", "writeUTF", "writeMultiByte"}

\* C2 (as stated): every read or write that returns advances position by
\* exactly its byte width.
C2_CursorAdvance ==
    (last.op \in SizedCalls /\ last.ok) => position = last.pre.position + CallWidth

(***************************************************************************)
(* C3                                                                      *)
(***************************************************************************)
\* C3: a typed read of width w made when fewer than w bytes remain between
\* position and length throws, returns no value, and leaves position, length
\* and the stored bytes as they were.
C3_ShortReadFails ==
    (last.op \in TypedReads /\ bytesAvailable(last.pre) < WidthOf(last.op)) =>
        /\ ~last.ok
        /\ last.ret = Undefined
        /\ Unchanged(last.pre)
        /\ arrayBuffer = last.pre.arrayBuffer

\* A 4-byte read with one to three bytes left.
C3_Witness ==
    /\ last.op = "readInt"
    /\ last.pre.position >= 0
    /\ bytesAvailable(last.pre) > 0
    /\ bytesAvailable(last.pre) < 4

(***************************************************************************)
(* C4                                                                      *)
(***************************************************************************)
\* C4 (as stated): a typed write of width w made with 0 <= position <= length
\* (and position + w within the capacity) leaves length unchanged when
\* bytesAvailable >= w, and otherwise grows it to exactly position + w.
C4_GrowthExact ==
    LET w == WidthOf(last.op)
        pre == last.pre
    IN (/\ last.op \in TypedWrites
        /\ 0 <= pre.position /\ pre.position <= length(pre)
        /\ pre.position + w <= MaxCapacity) =>
           length(Self) = IF bytesAvailable(pre) >= w THEN length(pre)
                          ELSE pre.position + w

(***************************************************************************)
(* C5                                                                      *)
(***************************************************************************)
\* C5: length never exceeds the capacity ceiling, and a typed write whose
\* growth would take length past it throws and leaves position, length and
\* the stored bytes as they were.
C5_CapacityCeiling ==
    /\ length(Self) <= MaxCapacity
    /\ Len(arrayBuffer) <= MaxCapacity
    /\ LET w == WidthOf(last.op)
           pre == last.pre
       IN (/\ last.op \in TypedWrites
           /\ bytesAvailable(pre) < w
           /\ length(pre) + (w - bytesAvailable(pre)) > MaxCapacity) =>
              /\ ~last.ok
              /\ Unchanged(pre)
              /\ arrayBuffer = pre.arrayBuffer

\* A 4-byte write at the end of a buffer with fewer than 4 bytes of room.
C5_Witness ==
    /\ last.op = "writeInt"
    /\ last.pre.position = length(last.pre)
    /\ length(last.pre) > 0
    /\ last.pre.stream.auto
    /\ last.pre.position + 4 > MaxCapacity
    /\ ~last.ok

(***************************************************************************)
(* C6                                                                      *)
(***************************************************************************)
\* C6 (as stated): length = n with 0 <= n <= length (and the cursor not
\* negative) keeps the first n bytes, makes length n, and sets position to
\* min(old position, n): a position already <= n stays where it was.
C6_TruncateClamp ==
    LET n == last.arg
        pre == last.pre
    IN (/\ last.op = "setLength"
        /\ 0 <= n /\ n <= length(pre)
        /\ 0 <= pre.position) =>
           /\ last.ok
           /\ length(Self) = n
           /\ Bytes(Self) = SubSeq(Bytes(pre), 1, n)
           /\ position = IF pre.position < n THEN pre.position ELSE n

(***************************************************************************)
(* C7                                                                      *)
(***************************************************************************)
\* C7 (as stated): length = n with length < n <= capacity makes length n,
\* keeps the bytes already stored, zero-fills [old length, n) and leaves
\* position as it was.
C7_ExtendZeroFill ==
    LET n == last.arg
        pre == last.pre
    IN (/\ last.op = "setLength"
        /\ n > length(pre)
        /\ n <= MaxCapacity) =>
           /\ last.ok
           /\ length(Self) = n
           /\ SubSeq(Bytes(Self), 1, length(pre)) = Bytes(pre)
           /\ \A i \in (length(pre) + 1)..n : Bytes(Self)[i] = 0
           /\ position = pre.position

(***************************************************************************)
(* C8                                                                      *)
(***************************************************************************)
\* C8: clear() returns with position = 0 and length = 0 and the endianness it
\* found, and a second clear() made right after it does the same.
C8_ClearIdempotent ==
    last.op = "clear" =>
        /\ last.ok
        /\ position = 0
        /\ length(Self) = 0
        /\ endian = last.pre.endian
        /\ LET again == clear(Self)
           IN /\ again.ok
              /\ again.b.position = 0
              /\ length(again.b) = 0
              /\ again.b.endian = last.pre.endian

\* clear() on a little-endian buffer that holds data, cursor past the start.
C8_Witness ==
    /\ last.op = "clear"
    /\ length(last.pre) > 0
    /\ last.pre.position > 0
    /\ last.pre.endian = "LE"

(***************************************************************************)
(* C9                                                                      *)
(***************************************************************************)
MultiByteIntegerWrites ==
    {"writeShort", "writeUnsignedShort", "writeInt", "writeUnsignedInt", "writeLong",
     "writeUnsignedLong"}

\* The w bytes the last call stored at the position it was made at.
Stored(b, p, w) == SubSeq(Bytes(b), p + 1, p + w)

\* C9: the bytes a multi-byte integer write stores at [p, p + width) are the
\* reverse of those the same write stores under the other byte order; under BE
\* the most significant byte comes first (the base-256 digits of a
\* non-negative value in descending order, a byte >= 0x80 first for a negative
\* one); writeUnsignedInt(0x12345678) on a fresh buffer stores 12 34 56 78
\* under BE and 78 56 34 12 under LE and leaves position = 4.
C9_EndianReversal ==
    (last.op \in MultiByteIntegerWrites /\ last.ok) =>
        LET w == WidthOf(last.op)
            p == last.pre.position
            here == Stored(Self, p, w)
            other == WriteOf(last.op, [last.pre EXCEPT !.endian = Flip(@)], last.arg)
            be == IF endian = "BE" THEN here ELSE Stored(other.b, p, w)
        IN /\ other.ok
           /\ here = Reverse(Stored(other.b, p, w))
           /\ IF last.arg.neg THEN be[1] >= 128
              ELSE \A i \in 1..w : be[i] = last.arg.mag[w + 1 - i]
           /\ (last.op = "writeUnsignedInt" /\ last.arg = Num(305419896) /\ p = 0) =>
                  /\ here = IF endian = "BE" THEN <<18, 52, 86, 120>>
                            ELSE <<120, 86, 52, 18>>
                  /\ position = 4

\* writeUnsignedInt(0x12345678) on an empty little-endian buffer.
C9_Witness ==
    /\ last.op = "writeUnsignedInt" /\ last.ok
    /\ last.arg = Num(305419896)
    /\ last.pre.position = 0 /\ length(last.pre) = 0
    /\ endian = "LE"
    /\ Bytes(Self) = <<120, 86, 52, 18>>

(***************************************************************************)
(* C10                                                                     *)
(***************************************************************************)
OneByteCalls ==
    {"writeByte", "readByte", "writeUnsignedByte", "readUnsignedByte", "writeBoolean",
     "readBoolean"}

\* The 1-byte call named op, applied to buffer b.
OneByteCall(op, b, value) ==
    IF op \in TypedWrites THEN WriteOf(op, b, value) ELSE ReadOf(TypeOfOp[op], b)

\* C10: setting endian changes the endianness and nothing else (the stored
\* bytes, length and position stay), and a 1-byte read or write has the same
\* outcome, stores the same bytes and returns the same value under either
\* byte order.
C10_EndianFrame ==
    /\ last.op = "setEndian" =>
           /\ last.ok
           /\ endian = last.arg
           /\ Unchanged(last.pre)
           /\ arrayBuffer = last.pre.arrayBuffer
           /\ stream = last.pre.stream
    /\ last.op \in OneByteCalls =>
           LET other == OneByteCall(last.op, [last.pre EXCEPT !.endian = Flip(@)], last.arg)
           IN /\ other.ok = last.ok
              /\ other.ret = last.ret
              /\ Bytes(other.b) = Bytes(Self)
              /\ other.b.position = position

\* The byte order switched on a buffer that holds multi-byte data.
C10_Witness ==
    /\ last.op = "setEndian"
    /\ last.arg # last.pre.endian
    /\ length(last.pre) >= 2
    /\ last.pre.position > 0

(***************************************************************************)
(* C11                                                                     *)
(***************************************************************************)
\* C11: writeMultiByte (with or without the length prefix) and readMultiByte
\* called with a character set the codec does not know throw and leave
\* position, length, the stored bytes and the endianness as they were.
C11_UnknownCharSet ==
    (last.op \in {"writeMultiByte", "readMultiByte"}
        /\ ~encodingExists(last.arg.charSet)) =>
        /\ ~last.ok
        /\ last.ret = Undefined
        /\ Unchanged(last.pre)
        /\ arrayBuffer = last.pre.arrayBuffer
        /\ stream = last.pre.stream
        /\ endian = last.pre.endian

\* A prefixed write with an unknown character set on a little-endian buffer
\* that holds data.
C11_Witness ==
    /\ last.op = "writeMultiByte"
    /\ last.arg.charSet = "bogus-charset"
    /\ last.arg.source
    /\ length(last.pre) > 0
    /\ last.pre.endian = "LE"
    /\ ~last.ok

(***************************************************************************)
(* C12                                                                     *)
(***************************************************************************)
\* The 2-byte unsigned length prefix n in byte order e.
Prefix(n, e) ==
    IF e = "BE" THEN <<n \div 256, n % 256>> ELSE <<n % 256, n \div 256>>

\* C12 (as stated): writeUTF(s), s encoding to n bytes, made on a buffer
\* whose length was never assigned, with the cursor inside the buffer and
\* room for 2 + n bytes under the capacity, returns
\* having stored at the old position the 2-byte prefix n in the active byte
\* order followed by the n encoded bytes, with position advanced by 2 + n;
\* readUTF() from the start of that data returns s. On a fresh BE buffer
\* writeUTF("hi") leaves bytes 00 02 68 69, length 4 and position 4.
C12_WriteUTFLayout ==
    LET p == last.pre.position
        encoded == encode(last.arg)
        n == Len(encoded)
        back == readUTF(Rewound)
    IN (/\ last.op = "writeUTF"
        /\ last.pre.stream.auto
        /\ 0 <= p /\ p <= length(last.pre)
        /\ p + 2 + n <= MaxCapacity) =>
           /\ last.ok
           /\ position = p + 2 + n
           /\ length(Self) >= p + 2 + n
           /\ Stored(Self, p, 2 + n) = Prefix(n, endian) \o encoded
           /\ back.ok /\ back.ret = last.arg
           /\ ((length(last.pre) = 0 /\ endian = "BE" /\ last.arg = <<104, 105>>) =>
                  (Bytes(Self) = <<0, 2, 104, 105>> /\ position = 4))

(***************************************************************************)
(* C13                                                                     *)
(***************************************************************************)
\* C13 (as stated): writeBytes(src, 0, k) and writeUTFBytes(s) with a k-byte
\* encoding, made on a buffer whose length was never assigned, with the
\* cursor inside the buffer and room for k bytes under the capacity, return
\* having stored the k bytes at [p, p + k) and advanced position by k;
\* readBytes(dst, 0, k) with k bytes remaining advances position by k.
C13_BulkCopy ==
    LET p == last.pre.position
        src == IF last.op = "writeBytes" THEN last.arg ELSE encode(last.arg)
        k == Len(src)
    IN /\ (/\ last.op \in {"writeBytes", "writeUTFBytes"}
           /\ last.pre.stream.auto
           /\ 0 <= p /\ p <= length(last.pre)
           /\ p + k <= MaxCapacity) =>
              /\ last.ok
              /\ position = p + k
              /\ length(Self) >= p + k
              /\ Stored(Self, p, k) = src
       /\ (/\ last.op = "readBytes"
           /\ 0 <= p
           /\ last.arg <= bytesAvailable(last.pre)) =>
              /\ last.ok
              /\ position = p + last.arg

(***************************************************************************)
(* C14                                                                     *)
(***************************************************************************)
\* C14 (as stated): readMultiByte(n, cs) with a known character set and the
\* cursor inside the buffer returns the decoding of exactly the n bytes at
\* [position, position + n) and advances position by n; when n exceeds
\* bytesAvailable it throws and leaves position, length and the stored bytes
\* as they were.
C14_ReadMultiByteExact ==
    LET p == last.pre.position
        n == last.arg.length
    IN (/\ last.op = "readMultiByte"
        /\ encodingExists(last.arg.charSet)
        /\ 0 <= p /\ p <= length(last.pre)) =>
           IF n <= bytesAvailable(last.pre)
           THEN /\ last.ok
                /\ last.ret = decode(Stored(last.pre, p, n))
                /\ position = p + n
           ELSE /\ ~last.ok
                /\ last.ret = Undefined
                /\ Unchanged(last.pre)

(***************************************************************************)
(* C15                                                                     *)
(***************************************************************************)
CompositeCalls == {"readUTF", "writeUTF", "writeMultiByte"}

\* C15 (as stated): a public operation that throws leaves position and length
\* exactly as they were before the call; in particular readUTF(), writeUTF()
\* and writeMultiByte() that throw at any step leave no part of their work
\* (the 2-byte prefix, a growth of the store) applied.
C15_AllOrNothing ==
    /\ ~last.ok =>
           /\ position = last.pre.position
           /\ length(Self) = length(last.pre)
    /\ (last.op \in CompositeCalls /\ ~last.ok) =>
           /\ Unchanged(last.pre)
           /\ arrayBuffer = last.pre.arrayBuffer

(***************************************************************************)
(* C16                                                                     *)
(***************************************************************************)
\* C16 (as stated): in every state reachable from a fresh buffer,
\* 0 <= position <= length, so that bytesAvailable = length - position is
\* never negative and never exceeds length.
C16_PositionInRange ==
    /\ 0 <= position
    /\ position <= length(Self)
    /\ bytesAvailable(Self) = length(Self) - position
    /\ 0 <= bytesAvailable(Self)
    /\ bytesAvailable(Self) <= length(Self)

(***************************************************************************)
(* C17                                                                     *)
(***************************************************************************)
\* The buffer as the constructor leaves it (the state Init starts from).
Fresh ==
    [arrayBuffer |-> <<>>, stream |-> [auto |-> TRUE, len |-> 0],
     position |-> 0, endian |-> "BE"]

\* C17 (as stated): on a fresh buffer, length = 10 followed by length = 3
\* ends with length = 3, position = 3 and bytesAvailable = 0.
C17_ExtendThenTruncate ==
    (/\ ops = 2
     /\ last.op = "setLength" /\ last.arg = 3
     /\ last.pre = setLength(Fresh, 10).b) =>
        /\ last.ok
        /\ length(Self) = 3
        /\ position = 3
        /\ bytesAvailable(Self) = 0

(***************************************************************************)
(* C18                                                                     *)
(***************************************************************************)
SignedTypes == {"Byte", "Short", "Int", "Long"}

\* value is one the type written by op can represent.
Representable(op, value) ==
    op \in IntegerWrites => InRange(value, WidthOf(op), TypeOfOp[op] \in SignedTypes)

\* C18 (as stated): in every reachable state with the cursor inside the
\* buffer, a typed write of width w of a representable value, with
\* position + w within the capacity, returns with length >= old position + w
\* and position = old position + w.
C18_WritesAlwaysGrow ==
    LET w == WidthOf(last.op)
        p == last.pre.position
    IN (/\ last.op \in TypedWrites
        /\ Representable(last.op, last.arg)
        /\ 0 <= p /\ p <= length(last.pre)
        /\ p + w <= MaxCapacity) =>
           /\ last.ok
           /\ length(Self) >= p + w
           /\ position = p + w

(***************************************************************************)
(* C19                                                                     *)
(***************************************************************************)
\* C19 (as stated): a typed read or typed write made with position outside
\* [0, length] throws and leaves position, length and the stored bytes as
\* they were.
C19_OutsideCursorFails ==
    LET p == last.pre.position
    IN (/\ last.op \in DOMAIN TypeOfOp
        /\ (p < 0 \/ p > length(last.pre))) =>
           /\ ~last.ok
           /\ Unchanged(last.pre)

(***************************************************************************)
(* C20                                                                     *)
(***************************************************************************)
\* The sum of the widths of the writes seq[1..i].
RECURSIVE WidthSum(_, _)
WidthSum(seq, i) == IF i = 0 THEN 0 ELSE WidthSum(seq, i - 1) + WidthOf(seq[i].op)

\* Reading from buffer b the fields seq[i..], each with read(T) of its type
\* under the byte order it was written in, returns their values in order;
\* the result is the buffer after the last read, or a failure.
RECURSIVE ReadAll(_, _, _)
ReadAll(b, seq, i) ==
    IF i > Len(seq) THEN Returned(b, Undefined)
    ELSE LET r == ReadOf(TypeOfOp[seq[i].op], setEndian(b, seq[i].endian).b)
         IN IF r.ok /\ r.ret = seq[i].value
            THEN ReadAll(r.b, seq, i + 1)
            ELSE Thrown(r.b, "mismatch")

\* C20: on a fresh buffer, after any sequence of typed integer or boolean
\* writes that returned (the byte order possibly changed between them),
\* position = length = the sum of the widths; position = 0 followed by
\* read(T1)..read(Tk), each under its field's byte order, returns the values
\* written, in order, and ends with position = length; and each write changed
\* only the bytes in [position, position + width).
C20_FieldSequence ==
    (fields.valid /\ Len(fields.seq) > 0) =>
        LET seq == fields.seq
            total == WidthSum(seq, Len(seq))
            back == ReadAll(setPosition(Self, 0).b, seq, 1)
        IN /\ position = total
           /\ length(Self) = total
           /\ back.ok
           /\ back.b.position = total
           /\ length(back.b) = total
           /\ last.op \in FieldWrites =>
                  /\ last.ok
                  /\ last.pre.position = total - WidthOf(last.op)
                  /\ SubSeq(Bytes(Self), 1, last.pre.position) = Bytes(last.pre)

\* Two multi-byte fields of different types, the byte order changed between
\* the first write and the second.
C20_Witness ==
    /\ fields.valid
    /\ Len(fields.seq) = 2
    /\ fields.seq[1].endian # fields.seq[2].endian
    /\ WidthOf(fields.seq[1].op) > 1
    /\ WidthOf(fields.seq[2].op) > 1
    /\ fields.seq[1].op # fields.seq[2].op
    /\ last.op \in FieldWrites

====
